---- MODULE Spec2Model ----
(***************************************************************************)
(* Model of the Instagram -> Shopify sync pipeline.                        *)
(*                                                                         *)
(*   app/routes/api.instagram.staged-upload.tsx   the sync action          *)
(*   app/utils/instagram-sync.server.ts           store calls, teardown    *)
(*   app/utils/account.server.ts                  the SocialAccount row    *)
(*   app/routes/instagram.callback.tsx            OAuth callback (re-link) *)
(*                                                                         *)
(* One step of the model is one awaited call of the action, together with  *)
(* the synchronous code that follows it up to the next await.  The remote  *)
(* API and the store are the environment: what they answer (a value, user  *)
(* errors, a rejected promise) is chosen nondeterministically.             *)
(***************************************************************************)
EXTENDS Integers, Sequences, FiniteSets, TLC

\* ------------------------------------------------------------------ bounds
\* Number of sync invocations explored.
MaxRuns == 2
\* Number of failing calls (user errors, error envelopes, failed transfers,
\* rejected promises) the environment may produce over a behaviour.
MaxFaults == 1

\* `first: 250` of the two enumerations of deleteOldAccountData, scaled down
\* so that a store larger than one page is reachable.
PageSize == 2

\* ------------------------------------------------------------ remote data
\* Strings are sequences of tokens, a username one token per character, so
\* that template literals are concatenations and startsWith is a prefix test.
\* One of the two usernames is a proper prefix of the other.
Usernames == {<<"a">>, <<"a", "b">>}
NoUsername == <<>>

\* like_count and comments_count are <<n>>, or <<>> when the remote API left
\* the field out of the post.
ImagePost(cap) ==
    [id |-> "1", media_type |-> "IMAGE", hasChildren |-> FALSE,
     children |-> <<>>, caption |-> cap,
     like_count |-> <<5>>, comments_count |-> <<0>>]

CarouselPost ==
    [id |-> "2", media_type |-> "CAROUSEL_ALBUM", hasChildren |-> TRUE,
     children |-> << [id |-> "c1", media_type |-> "IMAGE"],
                     [id |-> "c2", media_type |-> "VIDEO"] >>,
     caption |-> "album",
     like_count |-> <<>>, comments_count |-> <<2>>]

VideoPost ==
    [id |-> "3", media_type |-> "VIDEO", hasChildren |-> FALSE,
     children |-> <<>>, caption |-> "",
     like_count |-> <<0>>, comments_count |-> <<>>]

\* The media collections the remote API may answer with (igData.data).
\* Posts of the kinds the feeds above do not hold: an album for which the
\* API returned no children list, and a kind other than the three known.
BareCarouselPost ==
    [id |-> "4", media_type |-> "CAROUSEL_ALBUM", hasChildren |-> FALSE,
     children |-> <<>>, caption |-> "bare",
     like_count |-> <<1>>, comments_count |-> <<1>>]
OtherKindPost ==
    [id |-> "5", media_type |-> "video", hasChildren |-> FALSE,
     children |-> <<>>, caption |-> "other",
     like_count |-> <<1>>, comments_count |-> <<1>>]

KindFeeds ==
    { << BareCarouselPost >>,
      << OtherKindPost, VideoPost >>,
      << ImagePost("hi"), CarouselPost >> }

Feeds ==
    { <<>>,
      << ImagePost("new") >>,
      << ImagePost("hi"), CarouselPost, VideoPost >> }

\* ---------------------------------------------------------------- strings
StartsWith(s, prefix) ==
    /\ Len(s) >= Len(prefix)
    /\ SubSeq(s, 1, Len(prefix)) = prefix

\* JSON.stringify / JSON.parse of an array of identifiers.
JsonStringify(v) == <<"json", v>>
JsonParse(s) == s[2]

\* `${username}-feed-list` of upsertListMetaobject
ListHandle(username) == username \o <<"-feed-list">>

\* alt texts of the media transfers
SimpleAltHyphen(username, postId) == username \o <<"-post-", postId>>
SimpleAlt(username, postId) == username \o <<"-post_", postId>>
ChildAlt(username, postId, childId) ==
    username \o <<"-post_", postId, "_", childId>>

\* prefixes and handle of deleteOldAccountData
OldUsernamePrefixUnderscore(oldUsername) == oldUsername \o <<"-post_">>
OldUsernamePrefix(oldUsername) == oldUsername \o <<"-post-">>
OldListHandle(oldUsername) == oldUsername \o <<"-feed-list">>
OldAltPrefix(oldUsername) == oldUsername \o <<"-post_">>

\* post.caption || "No caption"
CaptionField(post) == IF post.caption = "" THEN "No caption" ELSE post.caption

\* String(v): "undefined" for a field the post does not have.
JsString(v) == IF v = <<>> THEN "undefined" ELSE ToString(v[1])

\* String(post.like_count) || "0", String(post.comments_count) || "0"
CountField(v) == IF JsString(v) = "" THEN "0" ELSE JsString(v)

\* ------------------------------------------------------------------ state
VARIABLES
    account,       \* the SocialAccount row of the tenant
    postRecords,   \* metaobjects of type nn_instagram_post
    listRecords,   \* metaobjects of type nn_instagram_list
    files,         \* files of the store
    nextMetaId,    \* next metaobject identifier the store assigns
    nextFileId,    \* next file identifier the store assigns
    run,           \* per invocation: the locals of the action
    obs,           \* per invocation: what the invocation has done so far
    store0,        \* per invocation: the store when the invocation started
    last,          \* the previous invocation: its feed, the username it
                   \* fetched, how it ended, and the stored username it
                   \* started from if its teardown was aborted
    runs,          \* invocations started
    faults         \* failing calls produced so far

vars == <<account, postRecords, listRecords, files, nextMetaId, nextFileId,
          run, obs, store0, last, runs, faults>>

storeVars == <<postRecords, listRecords, files, nextMetaId, nextFileId>>

\* The invocation slots: one when the invocations follow one another, two
\* when they may overlap.
Procs == DOMAIN run

NoAccount == [present |-> FALSE, username |-> NoUsername, expiresAt |-> "none"]

\* The locals of uploadVideoWithStaging between its steps.
NoTarget == [url |-> <<>>, resourceUrl |-> <<>>, parameters |-> <<>>]
NoVideo == [fileSize |-> 0, target |-> NoTarget]

IdleRun ==
    [pc |-> "idle", account |-> NoAccount, posts |-> <<>>, video |-> NoVideo,
     username |-> NoUsername, i |-> 0, c |-> 0, fileIds |-> <<>>,
     postObjectIds |-> <<>>, toDelete |-> <<>>, result |-> "none"]

\* What a teardown did not enumerate: the retired username, and the
\* identifiers of its post records and of its files beyond the first page.
NoneBeyond == [of |-> NoUsername, posts |-> {}, files |-> {}]

\* The awaited calls of the action and of the functions it calls.
CallNames ==
    {"fetchMedia", "fetchProfile", "enumPosts", "deletePost", "queryList",
     "deleteList", "queryFiles", "deleteFiles", "updateUsername", "lookup",
     "upload", "stagedUploadsCreate", "stagedUpload", "videoFileCreate",
     "upsertPost", "upsertList"}

IdleObs ==
    [calls |-> {}, expiredAtStart |-> FALSE, switched |-> FALSE,
     tornDown |-> FALSE, fits |-> TRUE, delFailed |-> FALSE,
     postIdx |-> 0, existing |-> FALSE, storedImages |-> <<>>, nUploads |-> 0,
     nUpserts |-> 0, sentCaption |-> "", sentImages |-> <<>>,
     sentData |-> <<>>,
     finished |-> FALSE, returned |-> <<>>, listWritten |-> FALSE,
     lookups |-> <<>>, alts |-> <<>>, upResults |-> <<>>, nEnum |-> 0,
     thrownBy |-> "none", steps |-> <<>>,
     stagedInput |-> [resource |-> "", filename |-> <<>>, fileSize |-> ""],
     posted |-> [url |-> <<>>, body |-> <<>>], postLog |-> <<>>,
     beyond |-> NoneBeyond, count |-> [n \in CallNames |-> 0]]

EmptyStore == [posts |-> {}, lists |-> {}, files |-> {}, username |-> NoUsername]

NoLast ==
    [posts |-> <<>>, username |-> NoUsername, result |-> "none",
     abortedFrom |-> NoUsername, beyond |-> NoneBeyond]

\* The state before the first invocation, for the given invocation slots.
InitWith(procs) ==
    /\ account = NoAccount
    /\ postRecords = {}
    /\ listRecords = {}
    /\ files = {}
    /\ nextMetaId = 1
    /\ nextFileId = 1
    /\ run = [p \in procs |-> IdleRun]
    /\ obs = [p \in procs |-> IdleObs]
    /\ store0 = [p \in procs |-> EmptyStore]
    /\ last = NoLast
    /\ runs = 0
    /\ faults = 0

\* Invocations one after the other.
Init == InitWith({1})

\* Two invocations of the tenant that may overlap.
InitOverlap == InitWith({1, 2})

\* `${username}-post-${post.id}` of upsertPostMetaobject
UpsertPostHandleFresh(username, postId) ==
    username \o <<"-post-", postId, ToString(nextMetaId)>>
UpsertPostHandle(username, postId) == username \o <<"-post-", postId>>

\* `${username}-post-${postId}` of getExistingPost
GetExistingPostHandleUnderscore(username, postId) ==
    username \o <<"-post_", postId>>
GetExistingPostHandle(username, postId) == username \o <<"-post-", postId>>

\* ------------------------------------------------------------------ store
\* metaobjectByHandle(handle: {type, handle})
MetaobjectByHandle(records, handle) == {r \in records : r.handle = handle}

\* metaobjectUpsert(handle, metaobject): the record of that handle is
\* rewritten in place and keeps its identifier; otherwise one is created.
MetaobjectUpsertAlwaysCreates(records, handle, fields, newId) ==
    records \cup {fields @@ [id |-> newId, handle |-> handle]}
MetaobjectUpsert(records, handle, fields, newId) ==
    IF MetaobjectByHandle(records, handle) # {}
    THEN {IF r.handle = handle THEN fields @@ [id |-> r.id, handle |-> handle]
                               ELSE r : r \in records}
    ELSE records \cup {fields @@ [id |-> newId, handle |-> handle]}

UpsertedId(records, handle, newId) ==
    IF MetaobjectByHandle(records, handle) # {}
    THEN (CHOOSE r \in records : r.handle = handle).id
    ELSE newId

\* `first: 250`: the page of lowest identifiers.
FirstPageUncapped(records) == records
FirstPage(records) ==
    {r \in records : Cardinality({q \in records : q.id < r.id}) < PageSize}

RECURSIVE IdsAscending(_)
IdsAscending(ids) ==
    IF ids = {} THEN <<>>
    ELSE LET m == CHOOSE x \in ids : \A y \in ids : x <= y
         IN <<m>> \o IdsAscending(ids \ {m})

\* ------------------------------------------------------------ environment
CanFail == faults < MaxFaults

\* No invocation is in progress.
Quiet == \A q \in Procs : run[q].pc = "idle"

\* instagram.callback.tsx: prisma.socialAccount.upsert of the tenant's row.
\* instagramUsername stays null when the /me call fails.
OAuthCallback ==
    /\ Quiet
    /\ \E u \in Usernames \cup {NoUsername} :
          account' = [present |-> TRUE, username |-> u, expiresAt |-> "future"]
    /\ UNCHANGED <<storeVars, run, obs, store0, last, runs, faults>>

\* The clock passes the expiry timestamp of the credential.
TokenExpires ==
    /\ Quiet
    /\ account.present
    /\ account.expiresAt = "future"
    /\ account' = [account EXCEPT !.expiresAt = "past"]
    /\ UNCHANGED <<storeVars, run, obs, store0, last, runs, faults>>

\* ----------------------------------------------------------- sync action
Set(p, r) == run' = [run EXCEPT ![p] = r]
Note(p, o) == obs' = [obs EXCEPT ![p] = o]
Called(p, name) ==
    [obs[p] EXCEPT !.calls = @ \cup {name}, !.count[name] = @ + 1]

Return(p, res) == [run[p] EXCEPT !.pc = "done", !.result = res]

\* The object the action returns, by the return statement that was reached.
ResponseBodyWithCount(r) ==
    CASE r.result = "noAccount" -> [error |-> "No Instagram account connected"]
      [] r.result = "expired" ->
            [error |-> "Instagram token has expired", expired |-> TRUE]
      [] r.result \in {"igError", "userError"} ->
            [error |-> "Instagram API error", igError |-> TRUE]
      [] r.result = "empty" ->
            [success |-> TRUE, message |-> "No Instagram posts found to sync",
             postsCount |-> 0]
      [] OTHER ->
            [success |-> TRUE, username |-> r.username,
             displayName |-> "name", postsCount |-> Len(r.postObjectIds)]
ResponseBody(r) ==
    CASE r.result = "noAccount" -> [error |-> "No Instagram account connected"]
      [] r.result = "expired" ->
            [error |-> "Instagram token has expired", expired |-> TRUE]
      [] r.result \in {"igError", "userError"} ->
            [error |-> "Instagram API error", igError |-> TRUE]
      [] r.result = "empty" ->
            [success |-> TRUE, message |-> "No Instagram posts found to sync",
             postsCount |-> 0]
      [] OTHER ->
            [success |-> TRUE, username |-> r.username,
             displayName |-> "name"]

\* A rejected promise: the action has no try/catch, the rejection leaves it.
Throw(p, name) ==
    /\ CanFail
    /\ faults' = faults + 1
    /\ Set(p, [run[p] EXCEPT !.pc = "thrown", !.result = "exception"])
    /\ Note(p, [Called(p, name) EXCEPT !.thrownBy = name])

\* account.expiresAt && new Date(account.expiresAt) < new Date()
TokenExpiredReversed(acc) == acc.expiresAt # "none" /\ acc.expiresAt = "future"
TokenExpired(acc) == acc.expiresAt # "none" /\ acc.expiresAt = "past"

\* getInstagramAccountWithToken, the two local checks that follow it.
Start(p) ==
    /\ run[p].pc = "idle"
    /\ runs < MaxRuns
    /\ runs' = runs + 1
    /\ store0' = [store0 EXCEPT ![p] =
                    [posts |-> postRecords, lists |-> listRecords,
                     files |-> files, username |-> account.username]]
    /\ Note(p, [IdleObs EXCEPT !.expiredAtStart =
                    (account.present /\ account.expiresAt = "past")])
    /\ LET r == [IdleRun EXCEPT !.account = account]
       IN  Set(p, IF ~account.present
                    THEN [r EXCEPT !.pc = "done", !.result = "noAccount"]
                  ELSE IF TokenExpired(account)
                    THEN [r EXCEPT !.pc = "done", !.result = "expired"]
                  ELSE [r EXCEPT !.pc = "fetchMedia"])
    /\ UNCHANGED <<account, storeVars, last, faults>>

\* What is left in the store of the records and files an earlier teardown
\* did not enumerate.
StillBeyond(b) ==
    LET ps == b.posts \cap {r.id : r \in postRecords}
        fs == b.files \cap {f.id : f \in files}
    IN  IF ps = {} /\ fs = {} THEN NoneBeyond
        ELSE [of |-> b.of, posts |-> ps, files |-> fs]

\* The response (or the rejection) reaches the caller; the invocation is over.
Respond(p) ==
    /\ run[p].pc \in {"done", "thrown"}
    /\ last' = [posts |-> run[p].posts, username |-> run[p].username,
                result |-> run[p].result,
                abortedFrom |->
                    IF obs[p].thrownBy \in
                          {"enumPosts", "deletePost", "queryList",
                           "deleteList", "queryFiles", "deleteFiles"}
                      THEN run[p].account.username
                      ELSE NoUsername,
                beyond |-> IF obs[p].beyond.of # NoUsername
                             THEN obs[p].beyond
                             ELSE StillBeyond(last.beyond)]
    /\ Set(p, IdleRun)
    /\ Note(p, IdleObs)
    /\ UNCHANGED <<account, storeVars, store0, runs, faults>>

\* fetch(.../me/media...), igData.error
FetchMediaFrom(p, feeds) ==
    /\ run[p].pc = "fetchMedia"
    /\ UNCHANGED <<account, storeVars, store0, last, runs>>
    /\ \/ Throw(p, "fetchMedia")
       \/ /\ CanFail
          /\ faults' = faults + 1
          /\ Set(p, Return(p, "igError"))
          /\ Note(p, Called(p, "fetchMedia"))
       \/ /\ \E feed \in feeds :
                Set(p, [run[p] EXCEPT !.pc = "fetchProfile", !.posts = feed])
          /\ Note(p, Called(p, "fetchMedia"))
          /\ UNCHANGED faults
FetchMedia(p) == FetchMediaFrom(p, Feeds)

\* `if (postObjectIds.length > 0)` after the loop, down to the return
AfterLoopAlwaysLists(r) == [r EXCEPT !.pc = "listUpsert"]
AfterLoop(r) ==
    IF r.postObjectIds # <<>>
      THEN [r EXCEPT !.pc = "listUpsert"]
      ELSE [r EXCEPT !.pc = "done", !.result = "success"]

\* `for (const post of posts)`: the first iteration, if there is one
EnterLoop(r) ==
    IF r.posts # <<>>
      THEN [r EXCEPT !.pc = "lookup", !.i = 1, !.c = 0, !.fileIds = <<>>]
      ELSE AfterLoop(r)

\* The synchronous code between the profile fetch and the next await: the
\* empty-feed return and the two tests on account.username.
AfterProfileNoEmptyReturn(r, u) ==
    IF r.account.username # NoUsername /\ r.account.username # u
      THEN [r EXCEPT !.pc = "enumPosts", !.username = u]
    ELSE IF r.account.username = NoUsername \/ r.account.username # u
      THEN [r EXCEPT !.pc = "updateUsername", !.username = u]
    ELSE EnterLoop([r EXCEPT !.username = u])
AfterProfileAlwaysReconciles(r, u) ==
    IF r.posts = <<>>
      THEN [r EXCEPT !.pc = "done", !.result = "empty", !.username = u]
    ELSE IF r.account.username # NoUsername
      THEN [r EXCEPT !.pc = "enumPosts", !.username = u]
    ELSE [r EXCEPT !.pc = "updateUsername", !.username = u]
AfterProfileUnsetNotWritten(r, u) ==
    IF r.posts = <<>>
      THEN [r EXCEPT !.pc = "done", !.result = "empty", !.username = u]
    ELSE IF r.account.username # NoUsername /\ r.account.username # u
      THEN [r EXCEPT !.pc = "enumPosts", !.username = u]
    ELSE EnterLoop([r EXCEPT !.username = u])
AfterProfile(r, u) ==
    IF r.posts = <<>>
      THEN [r EXCEPT !.pc = "done", !.result = "empty", !.username = u]
    ELSE IF r.account.username # NoUsername /\ r.account.username # u
      THEN [r EXCEPT !.pc = "enumPosts", !.username = u]
    ELSE IF r.account.username = NoUsername \/ r.account.username # u
      THEN [r EXCEPT !.pc = "updateUsername", !.username = u]
    ELSE EnterLoop([r EXCEPT !.username = u])

\* fetch(.../me/?fields=...) and the test of userData.error
FetchProfileErrorTestedLate(p) ==
    /\ run[p].pc = "fetchProfile"
    /\ UNCHANGED <<storeVars, store0, last, runs>>
    /\ \/ Throw(p, "fetchProfile") /\ UNCHANGED account
       \/ /\ CanFail
          /\ faults' = faults + 1
          /\ account' = [account EXCEPT !.username = NoUsername]
          /\ Set(p, Return(p, "userError"))
          /\ Note(p, Called(p, "fetchProfile"))
       \/ /\ \E u \in Usernames :
                /\ Set(p, AfterProfile(run[p], u))
                /\ Note(p, [Called(p, "fetchProfile") EXCEPT
                       !.switched = (run[p].posts # <<>>
                                     /\ run[p].account.username # NoUsername
                                     /\ run[p].account.username # u)])
          /\ UNCHANGED <<faults, account>>
FetchProfile(p) ==
    /\ run[p].pc = "fetchProfile"
    /\ UNCHANGED <<account, storeVars, store0, last, runs>>
    /\ \/ Throw(p, "fetchProfile")
       \/ /\ CanFail
          /\ faults' = faults + 1
          /\ Set(p, Return(p, "userError"))
          /\ Note(p, Called(p, "fetchProfile"))
       \/ /\ \E u \in Usernames :
                /\ Set(p, AfterProfile(run[p], u))
                /\ Note(p, [Called(p, "fetchProfile") EXCEPT
                       !.switched = (run[p].posts # <<>>
                                     /\ run[p].account.username # NoUsername
                                     /\ run[p].account.username # u)])
          /\ UNCHANGED faults

\* ------------------------------------------------- deleteOldAccountData
\* The username update of the action follows the teardown: the test
\* `!account.username || account.username !== currentUsername` holds
\* whenever the teardown ran.
OldUsernameIsCurrent(p) == run[p].username
OldUsername(p) == run[p].account.username

\* The post records of the old username that the enumeration did not
\* return, and its files that the file query did not return.
PostsBeyond(p, page) ==
    LET ids == {q.id : q \in
                  {r \in postRecords \ page :
                      StartsWith(r.handle, OldUsernamePrefix(OldUsername(p)))}}
    IN  IF ids = {} THEN NoneBeyond
        ELSE [of |-> OldUsername(p), posts |-> ids, files |-> {}]
FilesBeyond(p, b, matching) ==
    LET ids == {f.id : f \in matching \ FirstPage(matching)}
    IN  IF ids = {} THEN b
        ELSE [of |-> OldUsername(p), posts |-> b.posts, files |-> ids]

\* metaobjects(type: "nn_instagram_post", first: 250) and the handle filter
EnumPostsAfterUsernameWrite(p) ==
    /\ run[p].pc = "enumPosts"
    /\ account' = [account EXCEPT !.username = run[p].username]
    /\ UNCHANGED <<storeVars, store0, last, runs>>
    /\ \/ Throw(p, "enumPosts")
       \/ LET page == FirstPage(postRecords)
              postsToDelete ==
                  {r \in page : StartsWith(r.handle, OldUsernamePrefix(OldUsername(p)))}
              ids == IdsAscending({r.id : r \in postsToDelete})
          IN  /\ Set(p, [run[p] EXCEPT !.toDelete = ids,
                            !.pc = IF ids # <<>> THEN "deletePost" ELSE "queryList"])
              /\ Note(p, [Called(p, "enumPosts") EXCEPT
                     !.nEnum = @ + 1,
                     !.beyond = PostsBeyond(p, page),
                     !.fits = Cardinality(postRecords) <= PageSize])
              /\ UNCHANGED faults
EnumPosts(p) ==
    /\ run[p].pc = "enumPosts"
    /\ UNCHANGED <<account, storeVars, store0, last, runs>>
    /\ \/ Throw(p, "enumPosts")
       \/ LET page == FirstPage(postRecords)
              postsToDelete ==
                  {r \in page : StartsWith(r.handle, OldUsernamePrefix(OldUsername(p)))}
              ids == IdsAscending({r.id : r \in postsToDelete})
          IN  /\ Set(p, [run[p] EXCEPT !.toDelete = ids,
                            !.pc = IF ids # <<>> THEN "deletePost" ELSE "queryList"])
              /\ Note(p, [Called(p, "enumPosts") EXCEPT
                     !.nEnum = @ + 1,
                     !.beyond = PostsBeyond(p, page),
                     !.fits = Cardinality(postRecords) <= PageSize])
              /\ UNCHANGED faults

\* metaobjectDelete(id) of one post record of the old username
DeletePost(p) ==
    /\ run[p].pc = "deletePost"
    /\ UNCHANGED <<account, listRecords, files, nextMetaId, nextFileId,
                   store0, last, runs>>
    /\ LET id == Head(run[p].toDelete)
           rest == Tail(run[p].toDelete)
           r == [run[p] EXCEPT !.toDelete = rest,
                    !.pc = IF rest # <<>> THEN "deletePost" ELSE "queryList"]
       IN  \/ Throw(p, "deletePost") /\ UNCHANGED postRecords
           \/ /\ postRecords' = {x \in postRecords : x.id # id}
              /\ Set(p, r)
              /\ Note(p, Called(p, "deletePost"))
              /\ UNCHANGED faults
           \/ /\ CanFail
              /\ faults' = faults + 1
              /\ Set(p, r)
              /\ Note(p, [Called(p, "deletePost") EXCEPT !.delFailed = TRUE])
              /\ UNCHANGED postRecords

\* metaobjectByHandle(type: "nn_instagram_list", handle: oldListHandle)
QueryList(p) ==
    /\ run[p].pc = "queryList"
    /\ UNCHANGED <<account, storeVars, store0, last, runs>>
    /\ \/ Throw(p, "queryList")
       \/ LET found == MetaobjectByHandle(listRecords, OldListHandle(OldUsername(p)))
              ids == IdsAscending({r.id : r \in found})
          IN  /\ Set(p, [run[p] EXCEPT !.toDelete = ids,
                            !.pc = IF ids # <<>> THEN "deleteList" ELSE "queryFiles"])
              /\ Note(p, Called(p, "queryList"))
              /\ UNCHANGED faults

\* metaobjectDelete(id: oldListId)
DeleteList(p) ==
    /\ run[p].pc = "deleteList"
    /\ UNCHANGED <<account, postRecords, files, nextMetaId, nextFileId,
                   store0, last, runs>>
    /\ LET id == Head(run[p].toDelete)
           r == [run[p] EXCEPT !.toDelete = <<>>, !.pc = "queryFiles"]
       IN  \/ Throw(p, "deleteList") /\ UNCHANGED listRecords
           \/ /\ listRecords' = {x \in listRecords : x.id # id}
              /\ Set(p, r)
              /\ Note(p, Called(p, "deleteList"))
              /\ UNCHANGED faults
           \/ /\ CanFail
              /\ faults' = faults + 1
              /\ Set(p, r)
              /\ Note(p, [Called(p, "deleteList") EXCEPT !.delFailed = TRUE])
              /\ UNCHANGED listRecords

\* files(first: 250, query: "alt:<old>-post_") and the alt filter
QueryFiles(p) ==
    /\ run[p].pc = "queryFiles"
    /\ UNCHANGED <<account, storeVars, store0, last, runs>>
    /\ \/ Throw(p, "queryFiles")
       \/ LET matching == {f \in files : StartsWith(f.alt, OldAltPrefix(OldUsername(p)))}
              oldFiles == {f \in FirstPage(matching) :
                              StartsWith(f.alt, OldAltPrefix(OldUsername(p)))}
              ids == IdsAscending({f.id : f \in oldFiles})
          IN  /\ Set(p, [run[p] EXCEPT !.toDelete = ids,
                            !.pc = IF ids # <<>> THEN "deleteFiles"
                                                 ELSE "updateUsername"])
              /\ Note(p, [Called(p, "queryFiles") EXCEPT
                     !.fits = @ /\ Cardinality(matching) <= PageSize,
                     !.beyond = FilesBeyond(p, @, matching),
                     !.tornDown = (ids = <<>>)])
              /\ UNCHANGED faults

\* fileDelete(fileIds: oldFileIds)
DeleteFiles(p) ==
    /\ run[p].pc = "deleteFiles"
    /\ UNCHANGED <<account, postRecords, listRecords, nextMetaId, nextFileId,
                   store0, last, runs>>
    /\ LET ids == {run[p].toDelete[k] : k \in 1..Len(run[p].toDelete)}
           r == [run[p] EXCEPT !.toDelete = <<>>, !.pc = "updateUsername"]
       IN  \/ Throw(p, "deleteFiles") /\ UNCHANGED files
           \/ /\ files' = {f \in files : f.id \notin ids}
              /\ Set(p, r)
              /\ Note(p, [Called(p, "deleteFiles") EXCEPT !.tornDown = TRUE])
              /\ UNCHANGED faults
           \/ /\ CanFail
              /\ faults' = faults + 1
              /\ Set(p, r)
              /\ Note(p, [Called(p, "deleteFiles") EXCEPT
                     !.delFailed = TRUE, !.tornDown = TRUE])
              /\ UNCHANGED files

\* updateAccountUsername(account.id, currentUsername)
UpdateUsername(p) ==
    /\ run[p].pc = "updateUsername"
    /\ UNCHANGED <<storeVars, store0, last, runs>>
    /\ \/ Throw(p, "updateUsername") /\ UNCHANGED account
       \/ /\ account' = [account EXCEPT !.username = run[p].username]
          /\ Set(p, EnterLoop(run[p]))
          /\ Note(p, Called(p, "updateUsername"))
          /\ UNCHANGED faults

\* ---------------------------------------------------------- per-post loop
CurrentPost(p) == run[p].posts[run[p].i]

\* postObjectIds.push(metaobjectId)
PushId(ids, id) == Append(ids, id)

\* The synchronous code from the end of one iteration to the next await:
\* the next iteration, or the code after the loop.
EndOfPostRepeats(r) ==
    [r EXCEPT !.pc = "lookup", !.c = 0, !.fileIds = <<>>]
EndOfPostListsEarly(r) ==
    IF r.postObjectIds # <<>>
      THEN [r EXCEPT !.pc = "listUpsert"]
    ELSE IF r.i < Len(r.posts)
      THEN [r EXCEPT !.pc = "lookup", !.i = r.i + 1, !.c = 0, !.fileIds = <<>>]
    ELSE [r EXCEPT !.pc = "done", !.result = "success"]
EndOfPostBreaksOnFailure(r) ==
    IF r.i < Len(r.posts) /\ Len(r.postObjectIds) >= r.i
      THEN [r EXCEPT !.pc = "lookup", !.i = r.i + 1, !.c = 0, !.fileIds = <<>>]
      ELSE AfterLoop(r)
EndOfPost(r) ==
    IF r.i < Len(r.posts)
      THEN [r EXCEPT !.pc = "lookup", !.i = r.i + 1, !.c = 0, !.fileIds = <<>>]
      ELSE AfterLoop(r)

\* The positions of the action inside one iteration of the loop, after the
\* lookup.
InPost == {"upload", "stagedCreate", "stagedUpload", "videoFileCreate",
           "upsert"}

\* `post.media_type === "CAROUSEL_ALBUM" && post.children?.data`
IsCarousel(post) == post.media_type = "CAROUSEL_ALBUM" /\ post.hasChildren

\* The branch taken on the answer of getExistingPost.
AfterLookupCompletesCarousel(r, found) ==
    LET post == r.posts[r.i]
        stored == IF found = {} THEN <<>>
                  ELSE JsonParse((CHOOSE x \in found : TRUE).images)
    IN  IF found # {} /\ ~(IsCarousel(post) /\ Len(stored) < Len(post.children))
          THEN [r EXCEPT !.pc = "upsert", !.fileIds = stored]
        ELSE IF IsCarousel(post) /\ post.children = <<>>
          THEN EndOfPost([r EXCEPT !.fileIds = <<>>])
        ELSE [r EXCEPT !.pc = "upload", !.fileIds = <<>>,
                       !.c = IF IsCarousel(post) THEN 1 ELSE 0]
AfterLookupDropsStored(r, found) ==
    LET post == r.posts[r.i]
    IN  IF found # {}
          THEN [r EXCEPT !.pc = "upsert", !.fileIds = <<>>]
        ELSE IF IsCarousel(post) /\ post.children = <<>>
          THEN EndOfPost([r EXCEPT !.fileIds = <<>>])
        ELSE [r EXCEPT !.pc = "upload", !.fileIds = <<>>,
                       !.c = IF IsCarousel(post) THEN 1 ELSE 0]
AfterLookupAlwaysNew(r, found) ==
    LET post == r.posts[r.i]
    IN  IF IsCarousel(post) /\ post.children = <<>>
          THEN EndOfPost([r EXCEPT !.fileIds = <<>>])
        ELSE [r EXCEPT !.pc = "upload", !.fileIds = <<>>,
                       !.c = IF IsCarousel(post) THEN 1 ELSE 0]
AfterLookup(r, found) ==
    LET post == r.posts[r.i]
    IN  IF found # {}
          THEN [r EXCEPT !.pc = "upsert",
                   !.fileIds = JsonParse((CHOOSE x \in found : TRUE).images)]
        ELSE IF IsCarousel(post) /\ post.children = <<>>
          THEN EndOfPost([r EXCEPT !.fileIds = <<>>])
        ELSE [r EXCEPT !.pc = "upload", !.fileIds = <<>>,
                       !.c = IF IsCarousel(post) THEN 1 ELSE 0]

\* getExistingPost(admin, post.id, currentUsername)
Lookup(p) ==
    /\ run[p].pc = "lookup"
    /\ UNCHANGED <<account, storeVars, store0, last, runs>>
    /\ \/ Throw(p, "lookup")
       \/ LET post == CurrentPost(p)
              found == MetaobjectByHandle(postRecords,
                          GetExistingPostHandle(run[p].username, post.id))
              r == AfterLookup(run[p], found)
          IN  /\ Set(p, r)
              /\ Note(p, [Called(p, "lookup") EXCEPT
                     !.postIdx = run[p].i,
                     !.existing = (found # {}),
                     !.storedImages = IF found # {}
                                        THEN (CHOOSE x \in found : TRUE).images
                                        ELSE <<>>,
                     !.nUploads = 0, !.nUpserts = 0,
                     !.sentCaption = "", !.sentImages = <<>>,
                     !.sentData = <<>>,
                     !.lookups = Append(@, run[p].i),
                     !.postLog = <<"lookup">>,
                     !.alts = <<>>, !.upResults = <<>>, !.steps = <<>>,
                     !.finished = (r.pc \notin InPost)])
              /\ UNCHANGED faults

\* const isVideo = mediaType === "VIDEO"
IsVideoAnyCase(mediaType) == mediaType \in {"VIDEO", "video"}
IsVideo(mediaType) == mediaType = "VIDEO"

\* The media item of the pending uploadMediaFile call and its alt text.
CurrentMedia(r) ==
    IF r.c = 0 THEN r.posts[r.i] ELSE r.posts[r.i].children[r.c]
MediaAlt(r) ==
    IF r.c = 0 THEN SimpleAlt(r.username, r.posts[r.i].id)
    ELSE ChildAlt(r.username, r.posts[r.i].id, CurrentMedia(r).id)

\* The object the catch blocks of uploadMediaFile and uploadVideoWithStaging
\* return.
CaughtResult(message) == [files |-> <<>>, userErrors |-> <<message>>]

\* `fileIds.push(...)` with the files of the result, and the synchronous
\* code up to the next await: the next child, the upsert, or the next post.
AfterUploadAlwaysUpserts(r, result) ==
    LET post == r.posts[r.i]
        fileIds == r.fileIds \o result.files
    IN  IF r.c # 0 /\ r.c < Len(post.children)
          THEN [r EXCEPT !.pc = "upload", !.c = r.c + 1, !.fileIds = fileIds]
        ELSE [r EXCEPT !.pc = "upsert", !.fileIds = fileIds]
AfterUploadPrepends(r, result) ==
    LET post == r.posts[r.i]
        fileIds == result.files \o r.fileIds
    IN  IF r.c # 0 /\ r.c < Len(post.children)
          THEN [r EXCEPT !.pc = "upload", !.c = r.c + 1, !.fileIds = fileIds]
        ELSE IF fileIds # <<>>
          THEN [r EXCEPT !.pc = "upsert", !.fileIds = fileIds]
        ELSE EndOfPost([r EXCEPT !.fileIds = fileIds])
AfterUpload(r, result) ==
    LET post == r.posts[r.i]
        fileIds == r.fileIds \o result.files
    IN  IF r.c # 0 /\ r.c < Len(post.children)
          THEN [r EXCEPT !.pc = "upload", !.c = r.c + 1, !.fileIds = fileIds]
        ELSE IF fileIds # <<>>
          THEN [r EXCEPT !.pc = "upsert", !.fileIds = fileIds]
        ELSE EndOfPost([r EXCEPT !.fileIds = fileIds])

\* uploadMediaFile returns `result` to the loop; o is what the call has
\* been seen to do so far.
UploadReturns(p, o, result) ==
    /\ Set(p, AfterUpload([run[p] EXCEPT !.video = NoVideo], result))
    /\ Note(p, [o EXCEPT !.upResults = Append(@, result),
                         !.finished = (AfterUpload(run[p], result).pc
                                          \notin InPost)])

\* A transfer of the current post has failed.  The failing transfers of one
\* post are counted as one failing call: a media host that refuses one item
\* of a post may refuse the others.
TransferFailing(p) ==
    \E k \in 1..Len(obs[p].upResults) : obs[p].upResults[k].files = <<>>

\* A failure inside uploadMediaFile reaches a catch block.
UploadFailureRaises(p, o, message) ==
    /\ Throw(p, "upload")
    /\ UNCHANGED <<files, nextFileId>>
UploadFailure(p, o, message) ==
    /\ CanFail \/ TransferFailing(p)
    /\ faults' = IF TransferFailing(p) THEN faults ELSE faults + 1
    /\ UploadReturns(p, o, CaughtResult(message))
    /\ UNCHANGED <<files, nextFileId>>

\* media_url of a post or of a carousel child
MediaUrl(media) == <<"media_url", media.id>>

\* videoArrayBuffer.byteLength of the downloaded asset
ByteLength(mediaUrl) == IF mediaUrl[2] = "3" THEN 9 ELSE 7

\* The staged target the store answers for a file name.
StagedTarget(filename) ==
    [url |-> <<"staged-url">> \o filename,
     resourceUrl |-> <<"resource-url">> \o filename,
     parameters |-> <<"key">> \o filename]

\* `${alt}.mp4`
Mp4Name(alt) == alt \o <<".mp4">>

\* The input of stagedUploadsCreate
StagedUploadInput(alt, fileSize) ==
    [resource |-> "VIDEO", filename |-> Mp4Name(alt),
     fileSize |-> ToString(fileSize)]

\* The form posted to the staged target: the parameters the store returned,
\* then the file.
FormData(target, alt) == target.parameters \o <<"file">> \o Mp4Name(alt)

\* The source createShopifyFile is given for a video.
VideoFileSourceOriginal(target, mediaUrl) == mediaUrl
VideoFileSource(target, mediaUrl) == target.resourceUrl

\* createShopifyFile(admin, mediaUrl, alt, contentType): fileCreate answers
\* the file, or user errors and no file, or the call rejects.  The owner of
\* a file records the username the action ran under.
CreateShopifyFile(p, o, mediaUrl, alt, contentType) ==
    \/ /\ files' = files \cup
             {[id |-> nextFileId, alt |-> alt, contentType |-> contentType,
               originalSource |-> mediaUrl, owner |-> run[p].username]}
       /\ nextFileId' = nextFileId + 1
       /\ UploadReturns(p, o, [files |-> <<nextFileId>>, userErrors |-> <<>>])
       /\ UNCHANGED faults
    \/ /\ CanFail
       /\ faults' = faults + 1
       /\ UploadReturns(p, o, [files |-> <<>>, userErrors |-> <<"userError">>])
       /\ UNCHANGED <<files, nextFileId>>
    \/ UploadFailure(p, o, "exception")

\* uploadMediaFile(admin, media_url, media_type, alt) up to the end of its
\* first awaited call: fileCreate for an image, the download for a video.
Upload(p) ==
    /\ run[p].pc = "upload"
    /\ UNCHANGED <<account, postRecords, listRecords, nextMetaId,
                   store0, last, runs>>
    /\ LET alt == MediaAlt(run[p])
           url == MediaUrl(CurrentMedia(run[p]))
           o == [Called(p, "upload") EXCEPT !.nUploads = @ + 1,
                                            !.postLog = Append(@, "upload"),
                                            !.alts = Append(@, alt),
                                            !.steps = <<>>]
           d == [o EXCEPT !.steps = <<"download">>]
       IN  IF IsVideo(CurrentMedia(run[p]).media_type)
             THEN \/ /\ Set(p, [run[p] EXCEPT
                                  !.pc = "stagedCreate",
                                  !.video.fileSize = ByteLength(url)])
                     /\ Note(p, d)
                     /\ UNCHANGED <<files, nextFileId, faults>>
                  \/ UploadFailure(p, d, "Failed to download video")
             ELSE CreateShopifyFile(p, o, url, alt, "IMAGE")

\* stagedUploadsCreate and the test of stagedTargets[0]
StagedUploadsCreate(p) ==
    /\ run[p].pc = "stagedCreate"
    /\ UNCHANGED <<account, postRecords, listRecords, nextMetaId,
                   store0, last, runs>>
    /\ LET input == StagedUploadInput(MediaAlt(run[p]), run[p].video.fileSize)
           o == [Called(p, "stagedUploadsCreate") EXCEPT
                    !.steps = Append(@, "stagedUploadsCreate"),
                    !.stagedInput = input]
       IN  \/ /\ Set(p, [run[p] EXCEPT
                           !.pc = "stagedUpload",
                           !.video.target = StagedTarget(input.filename)])
              /\ Note(p, o)
              /\ UNCHANGED <<files, nextFileId, faults>>
           \/ UploadFailure(p, o, "Failed to create staged upload")
           \/ UploadFailure(p, o, "exception")

\* fetch(stagedTarget.url, POST formData) and the test of uploadResponse.ok
StagedUpload(p) ==
    /\ run[p].pc = "stagedUpload"
    /\ UNCHANGED <<account, postRecords, listRecords, nextMetaId,
                   store0, last, runs>>
    /\ LET o == [Called(p, "stagedUpload") EXCEPT
                    !.steps = Append(@, "stagedUpload"),
                    !.posted = [url |-> run[p].video.target.url,
                                body |-> FormData(run[p].video.target,
                                                  MediaAlt(run[p]))]]
       IN  \/ /\ Set(p, [run[p] EXCEPT !.pc = "videoFileCreate"])
              /\ Note(p, o)
              /\ UNCHANGED <<files, nextFileId, faults>>
           \/ UploadFailure(p, o, "Failed to upload to staged target")

\* createShopifyFile(admin, stagedTarget.resourceUrl, alt, "VIDEO")
VideoFileCreate(p) ==
    /\ run[p].pc = "videoFileCreate"
    /\ UNCHANGED <<account, postRecords, listRecords, nextMetaId,
                   store0, last, runs>>
    /\ CreateShopifyFile(p,
          [Called(p, "videoFileCreate") EXCEPT
              !.steps = Append(@, "fileCreate")],
          VideoFileSource(run[p].video.target,
                          MediaUrl(CurrentMedia(run[p]))),
          MediaAlt(run[p]), "VIDEO")

\* The fields upsertPostMetaobject writes; owner records the username
\* argument of the call.
PostFields(post, fileIds, username) ==
    [data |-> post, images |-> JsonStringify(fileIds),
     caption |-> CaptionField(post),
     likes |-> CountField(post.like_count),
     comments |-> CountField(post.comments_count),
     owner |-> username]

\* upsertPostMetaobject(admin, post, fileIds, currentUsername) and the test
\* of its user errors and of the identifier it returned
Upsert(p) ==
    /\ run[p].pc = "upsert"
    /\ UNCHANGED <<account, listRecords, files, nextFileId, store0, last, runs>>
    /\ LET post == CurrentPost(p)
           handle == UpsertPostHandle(run[p].username, post.id)
           fields == PostFields(post, run[p].fileIds, run[p].username)
           id == UpsertedId(postRecords, handle, nextMetaId)
           seen(ret) == [Called(p, "upsertPost") EXCEPT
                            !.nUpserts = @ + 1,
                            !.postLog = Append(@, "upsert"),
                            !.sentCaption = fields.caption,
                            !.sentImages = fields.images,
                            !.sentData = fields.data,
                            !.returned = Append(@, ret),
                            !.finished = TRUE]
       IN  \/ Throw(p, "upsertPost") /\ UNCHANGED <<postRecords, nextMetaId>>
           \/ /\ postRecords' = MetaobjectUpsert(postRecords, handle, fields, nextMetaId)
              /\ nextMetaId' = IF id = nextMetaId THEN nextMetaId + 1 ELSE nextMetaId
              /\ Set(p, EndOfPost([run[p] EXCEPT
                            !.postObjectIds = PushId(@, id)]))
              /\ Note(p, seen(id))
              /\ UNCHANGED faults
           \/ /\ CanFail
              /\ faults' = faults + 1
              /\ Set(p, EndOfPost(run[p]))
              /\ Note(p, seen(0))
              /\ UNCHANGED <<postRecords, nextMetaId>>

\* The fields upsertListMetaobject writes.
ListFieldsMerged(postObjectIds, username, old) ==
    [posts |-> JsonStringify(
                  (IF old = {} THEN <<>>
                   ELSE JsonParse((CHOOSE x \in old : TRUE).posts))
                  \o postObjectIds),
     username |-> username]
ListFields(postObjectIds, username, old) ==
    [posts |-> JsonStringify(postObjectIds), username |-> username]

\* upsertListMetaobject(admin, igData, postObjectIds, currentUsername,
\* displayName), then the return of the success summary
ListUpsert(p) ==
    /\ run[p].pc = "listUpsert"
    /\ UNCHANGED <<account, postRecords, files, nextFileId, store0, last, runs>>
    /\ LET handle == ListHandle(run[p].username)
           fields == ListFields(run[p].postObjectIds, run[p].username,
                                MetaobjectByHandle(listRecords, handle))
           id == UpsertedId(listRecords, handle, nextMetaId)
       IN  \/ Throw(p, "upsertList") /\ UNCHANGED <<listRecords, nextMetaId>>
           \/ /\ listRecords' = MetaobjectUpsert(listRecords, handle, fields, nextMetaId)
              /\ nextMetaId' = IF id = nextMetaId THEN nextMetaId + 1 ELSE nextMetaId
              /\ Set(p, Return(p, "success"))
              /\ Note(p, [Called(p, "upsertList") EXCEPT !.listWritten = TRUE])
              /\ UNCHANGED faults
           \/ /\ CanFail
              /\ faults' = faults + 1
              /\ Set(p, Return(p, "success"))
              /\ Note(p, Called(p, "upsertList"))
              /\ UNCHANGED <<listRecords, nextMetaId>>

\* ---------------------------------------------------------- specification
Sync(p) ==
    \/ Start(p)
    \/ FetchMedia(p)
    \/ FetchProfile(p)
    \/ EnumPosts(p)
    \/ DeletePost(p)
    \/ QueryList(p)
    \/ DeleteList(p)
    \/ QueryFiles(p)
    \/ DeleteFiles(p)
    \/ UpdateUsername(p)
    \/ Lookup(p)
    \/ Upload(p)
    \/ StagedUploadsCreate(p)
    \/ StagedUpload(p)
    \/ VideoFileCreate(p)
    \/ Upsert(p)
    \/ ListUpsert(p)
    \/ Respond(p)

Next ==
    \/ OAuthCallback
    \/ TokenExpires
    \/ \E p \in Procs : Sync(p)

Spec == Init /\ [][Next]_vars

\* Two invocations of the same tenant, which the server may run at the same
\* time.  Two invocations are started in all, the second slot serving the
\* second one; invocations in progress together see the same remote
\* account: the same feed and the same username.  What is explored is the
\* interleaving of the calls, none of which fails.
SameRemote(r1, r2) ==
    /\ (r1.pc \notin {"idle", "fetchMedia"} /\ r2.pc \notin {"idle", "fetchMedia"})
          => r1.posts = r2.posts
    /\ (r1.username # NoUsername /\ r2.username # NoUsername)
          => r1.username = r2.username

NextOverlap ==
    /\ Next
    /\ runs' <= Cardinality(Procs)
    /\ run'[2].pc # "idle" => runs' = 2
    /\ SameRemote(run'[1], run'[2])
    /\ faults' = 0

SpecOverlap == InitOverlap /\ [][NextOverlap]_vars

\* The tenant after a first sync of the three-post feed under "a": what the
\* action leaves when every call succeeded.  The store is then larger than
\* one page of the teardown enumerations.
SyncedUsername == <<"a">>
SyncedFeed == << ImagePost("hi"), CarouselPost, VideoPost >>
SyncedFile(id, media, alt) ==
    [id |-> id, alt |-> alt, owner |-> SyncedUsername,
     contentType |-> IF IsVideo(media.media_type) THEN "VIDEO" ELSE "IMAGE",
     originalSource |->
        IF IsVideo(media.media_type)
          THEN VideoFileSource(StagedTarget(Mp4Name(alt)), MediaUrl(media))
          ELSE MediaUrl(media)]
SyncedFiles ==
    { SyncedFile(1, SyncedFeed[1], SimpleAlt(SyncedUsername, "1")),
      SyncedFile(2, CarouselPost.children[1],
                 ChildAlt(SyncedUsername, "2", "c1")),
      SyncedFile(3, CarouselPost.children[2],
                 ChildAlt(SyncedUsername, "2", "c2")),
      SyncedFile(4, VideoPost, SimpleAlt(SyncedUsername, "3")) }
SyncedPostRecord(id, post, fileIds) ==
    PostFields(post, fileIds, SyncedUsername)
       @@ [id |-> id, handle |-> UpsertPostHandle(SyncedUsername, post.id)]
SyncedPosts ==
    { SyncedPostRecord(1, SyncedFeed[1], <<1>>),
      SyncedPostRecord(2, SyncedFeed[2], <<2, 3>>),
      SyncedPostRecord(3, SyncedFeed[3], <<4>>) }
SyncedLists ==
    { ListFields(<<1, 2, 3>>, SyncedUsername, {})
         @@ [id |-> 4, handle |-> ListHandle(SyncedUsername)] }

Synced ==
    /\ account = [present |-> TRUE, username |-> SyncedUsername,
                  expiresAt |-> "future"]
    /\ postRecords = SyncedPosts
    /\ listRecords = SyncedLists
    /\ files = SyncedFiles
    /\ nextMetaId = 5
    /\ nextFileId = 5
    /\ run = [p \in {1} |-> IdleRun]
    /\ obs = [p \in {1} |-> IdleObs]
    /\ store0 = [p \in {1} |-> EmptyStore]
    /\ last = [posts |-> SyncedFeed, username |-> SyncedUsername,
               result |-> "success", abortedFrom |-> NoUsername,
               beyond |-> NoneBeyond]

\* The invocations that follow that first sync.
InitSynced ==
    /\ Synced
    /\ runs = 0
    /\ faults = 0

SpecSynced == InitSynced /\ [][Next]_vars

\* One invocation in which every awaited call returns: an answer, an error
\* envelope or user errors, but no rejection.  It starts from the empty
\* store or from the store a first sync has left.  The runtime resumes the
\* action when the call it awaits has returned, so a step of the invocation
\* that stays enabled is taken.
Returning(p) == Sync(p) /\ run'[p].pc # "thrown"
InitReturning == Init \/ InitSynced
NextReturning ==
    /\ \/ OAuthCallback
       \/ TokenExpires
       \/ \E p \in Procs : Returning(p)
    /\ runs' <= Cardinality(Procs)
SpecReturning ==
    /\ InitReturning
    /\ [][NextReturning]_vars
    /\ WF_vars(\E p \in Procs : Returning(p) /\ runs' <= Cardinality(Procs))

\* One invocation over a feed of the other media kinds, on the empty store:
\* every post is new and every media item is transferred.
SyncKinds(p) ==
    \/ FetchMediaFrom(p, KindFeeds)
    \/ Sync(p) /\ run[p].pc # "fetchMedia"
NextKinds ==
    /\ \/ OAuthCallback
       \/ TokenExpires
       \/ \E p \in Procs : SyncKinds(p)
    /\ runs' <= Cardinality(Procs)
SpecKinds == Init /\ [][NextKinds]_vars

\* ================================================================ claims
Finished(p) == run[p].pc = "done"
Succeeded(p) == run[p].pc = "done" /\ run[p].result = "success"

StoreUnchanged(p) ==
    /\ postRecords = store0[p].posts
    /\ listRecords = store0[p].lists
    /\ files = store0[p].files

\* What the store holds under a username, by the naming conventions.
PostRecordsOf(records, u) ==
    {r \in records : StartsWith(r.handle, u \o <<"-post-">>)}
ListRecordsOf(records, u) == {l \in records : l.handle = u \o <<"-feed-list">>}
MediaOf(fs, u) == {f \in fs : StartsWith(f.alt, u \o <<"-post_">>)}

HasDataOf(u) ==
    \/ PostRecordsOf(postRecords, u) # {}
    \/ ListRecordsOf(listRecords, u) # {}
    \/ MediaOf(files, u) # {}

\* The records by identifier and handle, each with its media list.
MediaLists(records) == {<<r.id, r.handle, r.images>> : r \in records}

\* The invocation repeats the previous one: same feed, same fetched username,
\* which is also the username the account row holds when it starts.
RepeatsLast(p) ==
    /\ Succeeded(p)
    /\ last.result = "success"
    /\ last.posts = run[p].posts
    /\ last.username = run[p].username
    /\ run[p].account.username = run[p].username

\* Every post of the feed had its record when the invocation started.
AllSynced(p) ==
    \A k \in 1..Len(run[p].posts) :
       \E r \in store0[p].posts :
          r.handle = run[p].username \o <<"-post-", run[p].posts[k].id>>

\* C1 as stated: a second run over the same feed and username leaves the
\* post records, their media lists and the media assets as the first run
\* left them.
C1_IdempotentAlways ==
    \A p \in Procs :
       RepeatsLast(p) =>
          /\ MediaLists(postRecords) = MediaLists(store0[p].posts)
          /\ files = store0[p].files

\* C1 amended: the same, for a first run that left a record for every post
\* of the feed.
C1_IdempotentOnceSynced ==
    \A p \in Procs :
       (RepeatsLast(p) /\ AllSynced(p)) =>
          /\ MediaLists(postRecords) = MediaLists(store0[p].posts)
          /\ files = store0[p].files

C1_Witness ==
    \E p \in Procs :
       /\ RepeatsLast(p)
       /\ AllSynced(p)
       /\ Len(run[p].posts) = 3
       /\ Cardinality(files) = 4

\* C2: the store holds at most one post record per (username, remote post
\* id), and its handle is exactly username-post-id.
C2_OneRecordPerPost ==
    /\ \A r1, r2 \in postRecords :
          (r1.owner = r2.owner /\ r1.data.id = r2.data.id) => r1 = r2
    /\ \A r \in postRecords : r.handle = r.owner \o <<"-post-", r.data.id>>

\* A record was found by the lookup and written again.
C2_Witness ==
    \E p \in Procs :
       /\ obs[p].existing
       /\ obs[p].nUpserts = 1
       /\ obs[p].returned # <<>>
       /\ obs[p].returned[Len(obs[p].returned)] # 0
       /\ Cardinality(postRecords) = Cardinality(store0[p].posts)

NonZero(x) == x # 0
Successful(returned) == SelectSeq(returned, NonZero)

\* C4: a run with a successful post upsert issues the list upsert, and the
\* list record it writes holds the identifiers the successful post upserts
\* of this run returned, in feed order, and nothing else.
C4_ListIsThisRun ==
    \A p \in Procs :
       /\ (Succeeded(p) /\ Successful(obs[p].returned) # <<>>) =>
             "upsertList" \in obs[p].calls
       /\ (Finished(p) /\ obs[p].listWritten) =>
             \E l \in listRecords :
                /\ l.handle = run[p].username \o <<"-feed-list">>
                /\ l.posts = <<"json", Successful(obs[p].returned)>>

\* A post of the earlier list failed its upsert in this run and is gone from
\* the list this run wrote.
C4_Witness ==
    \E p \in Procs :
       /\ Finished(p)
       /\ obs[p].listWritten
       /\ \E k \in 1..Len(obs[p].returned) : obs[p].returned[k] = 0
       /\ \E l0 \in store0[p].lists, l \in listRecords :
             /\ l0.handle = l.handle
             /\ Len(l0.posts[2]) = 3
             /\ Len(l.posts[2]) = 2

LoopCalls == {"lookup", "upload", "upsertPost", "upsertList"}

\* C5 as stated: once the teardown of an X -> Y run has returned, nothing of
\* X is left in the store, and no lookup, transfer or upsert precedes it.
C5_TeardownRemovesAll ==
    \A p \in Procs :
       /\ obs[p].tornDown => ~HasDataOf(run[p].account.username)
       /\ (obs[p].switched /\ ~obs[p].tornDown) =>
             obs[p].calls \cap LoopCalls = {}

\* C5 amended: the same, when the post records and the matching files fit
\* the first page of their enumeration and no delete call reported an error.
C5_TeardownRemovesFirstPage ==
    \A p \in Procs :
       /\ (obs[p].tornDown /\ obs[p].fits /\ ~obs[p].delFailed) =>
             ~HasDataOf(run[p].account.username)
       /\ (obs[p].switched /\ ~obs[p].tornDown) =>
             obs[p].calls \cap LoopCalls = {}

\* The teardown removed a post record, the list record and a file of X, and
\* the first lookup under Y is about to be issued.
C5_Witness ==
    \E p \in Procs :
       /\ obs[p].tornDown
       /\ obs[p].fits
       /\ ~obs[p].delFailed
       /\ run[p].pc = "lookup"
       /\ "lookup" \notin obs[p].calls
       /\ PostRecordsOf(store0[p].posts, run[p].account.username) # {}
       /\ ListRecordsOf(store0[p].lists, run[p].account.username) # {}
       /\ MediaOf(store0[p].files, run[p].account.username) # {}
       /\ ~HasDataOf(run[p].account.username)

\* C6 as stated: when the previous run imported under X and this run has
\* imported posts under Y, nothing of X is left after this run (the store
\* fitted one page and no delete call reported an error).
C6_OldIdentityTornDown ==
    \A p \in Procs :
       ( /\ Succeeded(p)
         /\ run[p].postObjectIds # <<>>
         /\ last.result = "success"
         /\ last.username # run[p].username
         /\ Cardinality(store0[p].posts) <= PageSize
         /\ Cardinality(store0[p].files) <= PageSize
         /\ ~obs[p].delFailed )
       => ~HasDataOf(last.username)

\* C7: a run whose media fetch answered an empty collection returns the
\* zero-count result and has written nothing, whatever the usernames.
C7_EmptyFeedWritesNothing ==
    \A p \in Procs :
       ( /\ "fetchProfile" \in obs[p].calls
         /\ run[p].posts = <<>>
         /\ run[p].result \notin {"userError", "exception"} )
       => /\ Finished(p)
          /\ run[p].result = "empty"
          /\ StoreUnchanged(p)
          /\ account.username = store0[p].username
          /\ obs[p].calls = {"fetchMedia", "fetchProfile"}

\* The empty feed came while an account switch was pending over a store
\* that holds data of the old username.
C7_Witness ==
    \E p \in Procs :
       /\ Finished(p)
       /\ run[p].result = "empty"
       /\ store0[p].username # NoUsername
       /\ store0[p].username # run[p].username
       /\ store0[p].posts # {}

FatalResults == {"noAccount", "expired", "igError", "userError"}

\* C8: a run that ends with a fatal error has written nothing: the store
\* and the stored username are as they were when it started.
C8_FatalWritesNothing ==
    \A p \in Procs :
       (Finished(p) /\ run[p].result \in FatalResults) =>
          /\ StoreUnchanged(p)
          /\ account.username = store0[p].username
          /\ obs[p].calls \subseteq {"fetchMedia", "fetchProfile"}

\* The profile fetch answered an error envelope over a non-empty store.
C8_Witness ==
    \E p \in Procs :
       /\ Finished(p)
       /\ run[p].result = "userError"
       /\ store0[p].username # NoUsername
       /\ store0[p].posts # {}
       /\ run[p].posts # <<>>

\* C9: a run that starts with an expired credential issues no call at all
\* and returns the expired-credential error.
C9_ExpiryBeforeCalls ==
    \A p \in Procs :
       obs[p].expiredAtStart =>
          /\ obs[p].calls = {}
          /\ Finished(p)
          /\ run[p].result = "expired"

C9_Witness ==
    \E p \in Procs :
       /\ obs[p].expiredAtStart
       /\ Finished(p)
       /\ store0[p].posts # {}

\* C10 as stated: no failure of a call leaves the action as an exception.
C10_NoUnhandledException ==
    \A p \in Procs : run[p].pc # "thrown"

\* 1, 2, ..., n
UpTo(n) == [k \in 1..n |-> k]

\* C11: in a run that reaches the loop the posts are looked up once each, in
\* feed order, whatever transfer failed and whatever upsert returned user
\* errors before; the run that returns has looked up every post, and the
\* identifiers collected are those of the upserts without user errors.
C11_LoopContinues ==
    \A p \in Procs :
       /\ run[p].pc = "lookup" => obs[p].lookups = UpTo(run[p].i - 1)
       /\ run[p].pc \in InPost => obs[p].lookups = UpTo(run[p].i)
       /\ (Finished(p) /\ "lookup" \in obs[p].calls) =>
             /\ run[p].result = "success"
             /\ obs[p].lookups = UpTo(Len(run[p].posts))
       /\ run[p].postObjectIds = Successful(obs[p].returned)
       /\ Len(obs[p].returned) <= Len(obs[p].lookups)

\* The upsert of the first of three posts returned user errors; the other
\* two were looked up and upserted.
C11_Witness ==
    \E p \in Procs :
       /\ Finished(p)
       /\ Len(run[p].posts) = 3
       /\ obs[p].returned # <<>>
       /\ obs[p].returned[1] = 0
       /\ obs[p].lookups = <<1, 2, 3>>
       /\ Len(run[p].postObjectIds) = 2

\* The file references of a sequence of results, concatenated.
RECURSIVE ConcatFiles(_)
ConcatFiles(results) ==
    IF results = <<>> THEN <<>>
    ELSE Head(results).files \o ConcatFiles(Tail(results))

TransferCalls ==
    {"upload", "stagedUploadsCreate", "stagedUpload", "videoFileCreate"}

TransferMessages ==
    {"Failed to download video", "Failed to create staged upload",
     "Failed to upload to staged target", "exception", "userError"}

\* C12: no failure inside uploadMediaFile leaves the action as an exception.
\* Every call returns a result; a result without a file reference carries
\* one userErrors entry with the message of the failure, and the loop has
\* collected exactly the references of the results.
C12_UploadNeverRaises ==
    \A p \in Procs :
       /\ obs[p].thrownBy \notin TransferCalls
       /\ \A k \in 1..Len(obs[p].upResults) :
             LET res == obs[p].upResults[k]
             IN  \/ Len(res.files) = 1 /\ res.userErrors = <<>>
                 \/ /\ res.files = <<>>
                    /\ Len(res.userErrors) = 1
                    /\ res.userErrors[1] \in TransferMessages
       /\ (run[p].pc \in {"upload", "upsert"} /\ ~obs[p].existing) =>
             /\ Len(obs[p].upResults) = obs[p].nUploads
             /\ run[p].fileIds = ConcatFiles(obs[p].upResults)
       /\ (obs[p].finished /\ ~obs[p].existing) =>
             Len(obs[p].upResults) = obs[p].nUploads

\* The staged upload of the video post, the last of three, was refused; the
\* run went on and returned its success summary.
C12_Witness ==
    \E p \in Procs :
       /\ Succeeded(p)
       /\ obs[p].lookups = <<1, 2, 3>>
       /\ obs[p].upResults =
             << CaughtResult("Failed to upload to staged target") >>
       /\ Len(run[p].postObjectIds) = 2

TeardownCalls ==
    {"enumPosts", "deletePost", "queryList", "deleteList", "queryFiles",
     "deleteFiles"}

\* C13 as stated: in an X -> Y run, whatever call of the teardown fails, by
\* user errors or by a rejected promise, the run persists Y and goes on to
\* the per-post loop.
C13_TeardownNonBlocking ==
    \A p \in Procs :
       ( /\ obs[p].switched
         /\ run[p].pc \in {"done", "thrown"}
         /\ obs[p].thrownBy \in TeardownCalls \cup {"none"} )
       => /\ "updateUsername" \in obs[p].calls
          /\ "lookup" \in obs[p].calls
          /\ account.username = run[p].username

\* The iteration of a carousel post without a record is over.
NewCarouselDone(p) ==
    /\ obs[p].finished
    /\ ~obs[p].existing
    /\ IsCarousel(run[p].posts[obs[p].postIdx])

\* The alt texts of the children of a post, in child order.
ChildAlts(username, post) ==
    [k \in 1..Len(post.children) |->
        username \o <<"-post_", post.id, "_", post.children[k].id>>]

\* C14 as stated: a new carousel post with N children has N transfers, one
\* per child in child order with the child alt text, and then exactly one
\* upsert, whose media list is the concatenation of the returned references.
C14_FanOutAlwaysUpserts ==
    \A p \in Procs :
       NewCarouselDone(p) =>
          LET post == run[p].posts[obs[p].postIdx]
          IN  /\ obs[p].nUploads = Len(post.children)
              /\ obs[p].alts = ChildAlts(run[p].username, post)
              /\ obs[p].nUpserts = 1
              /\ obs[p].sentImages = <<"json", ConcatFiles(obs[p].upResults)>>

\* C14 amended: the same, with the upsert issued only when at least one
\* transfer returned a reference.
C14_FanOut ==
    \A p \in Procs :
       NewCarouselDone(p) =>
          LET post == run[p].posts[obs[p].postIdx]
              refs == ConcatFiles(obs[p].upResults)
          IN  /\ obs[p].nUploads = Len(post.children)
              /\ obs[p].alts = ChildAlts(run[p].username, post)
              /\ refs # <<>> =>
                    /\ obs[p].nUpserts = 1
                    /\ obs[p].sentImages = <<"json", refs>>
              /\ refs = <<>> => obs[p].nUpserts = 0
              /\ (\A k \in 1..Len(obs[p].upResults) :
                     obs[p].upResults[k].files # <<>>)
                 => Len(refs) = Len(post.children)

\* Both children of the carousel were transferred and the parent upserted
\* with their two references, the image child first.
C14_Witness ==
    \E p \in Procs :
       /\ NewCarouselDone(p)
       /\ obs[p].nUploads = 2
       /\ obs[p].nUpserts = 1
       /\ Len(obs[p].sentImages[2]) = 2
       /\ \E f1, f2 \in files :
             /\ obs[p].sentImages[2] = <<f1.id, f2.id>>
             /\ f1.contentType = "IMAGE"
             /\ f2.contentType = "VIDEO"
             /\ f1.alt = run[p].username \o <<"-post_", "2", "_", "c1">>
             /\ f2.alt = run[p].username \o <<"-post_", "2", "_", "c2">>

\* The records whose media list holds the file identifier.
OwnersOf(fileId) ==
    {r \in postRecords :
        \E k \in 1..Len(r.images[2]) : r.images[2][k] = fileId}

\* C15 as stated: when a run has completed, every media asset of the store
\* is referenced by the media list of exactly one post record, and the
\* record of a carousel post holds one reference per child, in child order.
C15_MediaOwnership ==
    \A p \in Procs :
       Finished(p) =>
          /\ \A f \in files : Cardinality(OwnersOf(f.id)) = 1
          /\ \A r \in postRecords :
                IsCarousel(r.data) =>
                   /\ Len(r.images[2]) = Len(r.data.children)
                   /\ \A k \in 1..Len(r.images[2]) :
                         \E f \in files :
                            /\ f.id = r.images[2][k]
                            /\ f.alt = ChildAlt(r.owner, r.data.id,
                                                r.data.children[k].id)

\* The count as a string, "0" for a count the post does not have.
CountOrZero(v) == IF v = <<>> THEN "0" ELSE ToString(v[1])

\* C16 as stated: a post record holds "No caption" for an absent or empty
\* caption, "0" for an absent like count and "0" for an absent comment
\* count, and otherwise the remote value as a string.
C16_FieldDefaults ==
    \A r \in postRecords :
       /\ r.caption = IF r.data.caption = "" THEN "No caption"
                                             ELSE r.data.caption
       /\ r.likes = CountOrZero(r.data.like_count)
       /\ r.comments = CountOrZero(r.data.comments_count)

\* The run fetched a non-empty feed, no upsert of a post succeeded, and it
\* has returned.
NothingUpserted(p) ==
    /\ Finished(p)
    /\ run[p].posts # <<>>
    /\ Successful(obs[p].returned) = <<>>

\* C17 as stated: a run over a non-empty feed in which no post upsert
\* succeeded has not called the list upsert, and the list records are as
\* they were when it started.
C17_StaleListUntouched ==
    \A p \in Procs :
       NothingUpserted(p) =>
          /\ "upsertList" \notin obs[p].calls
          /\ listRecords = store0[p].lists

\* C17 amended: such a run has not called the list upsert and has written
\* no list record: the list of the fetched username is as it was, and the
\* others are too unless the teardown of an account switch deleted them.
C17_StaleListOfUsername ==
    \A p \in Procs :
       NothingUpserted(p) =>
          /\ "upsertList" \notin obs[p].calls
          /\ listRecords \subseteq store0[p].lists
          /\ "fetchProfile" \in obs[p].calls =>
                ListRecordsOf(listRecords, run[p].username) =
                   ListRecordsOf(store0[p].lists, run[p].username)
          /\ ~obs[p].switched => listRecords = store0[p].lists

\* The only post of the feed failed its upsert; the list of an earlier run
\* under the same username is still there.
C17_Witness ==
    \E p \in Procs :
       /\ Finished(p)
       /\ run[p].result = "success"
       /\ NothingUpserted(p)
       /\ obs[p].returned = <<0>>
       /\ ~obs[p].switched
       /\ \E l \in listRecords :
             /\ l.handle = run[p].username \o <<"-feed-list">>
             /\ Len(l.posts[2]) = 3

\* The run started from an account row without a stored username, fetched
\* a non-empty feed and the username.
UnsetToX(p) ==
    /\ run[p].pc # "idle"
    /\ run[p].account.present
    /\ run[p].account.username = NoUsername
    /\ run[p].posts # <<>>
    /\ run[p].username # NoUsername

\* C18 as stated: from an unset username no call of the teardown is issued,
\* and the fetched username is written after the per-post loop.
C18_UnsetPersistsAfterLoop ==
    \A p \in Procs :
       UnsetToX(p) =>
          /\ obs[p].calls \cap TeardownCalls = {}
          /\ "updateUsername" \in obs[p].calls =>
                /\ obs[p].lookups = UpTo(Len(run[p].posts))
                /\ run[p].pc \notin InPost
          /\ Succeeded(p) => account.username = run[p].username

\* C18 amended: from an unset username no call of the teardown is issued,
\* and the fetched username is written before the first lookup of the loop.
C18_UnsetPersistsBeforeLoop ==
    \A p \in Procs :
       UnsetToX(p) =>
          /\ obs[p].calls \cap TeardownCalls = {}
          /\ "lookup" \in obs[p].calls =>
                /\ "updateUsername" \in obs[p].calls
                /\ account.username = run[p].username
          /\ account.username \in {NoUsername, run[p].username}
          /\ Succeeded(p) => account.username = run[p].username

\* The username has just been written; no post has been looked up yet.
C18_Witness ==
    \E p \in Procs :
       /\ UnsetToX(p)
       /\ run[p].pc = "lookup"
       /\ obs[p].lookups = <<>>
       /\ store0[p].username = NoUsername
       /\ account.username = run[p].username

\* The run fetched the username the account row already held.
XToX(p) ==
    /\ run[p].pc # "idle"
    /\ run[p].username # NoUsername
    /\ run[p].account.username = run[p].username

\* C19: a run whose fetched username equals the stored one issues no call of
\* the teardown and does not write the username; the teardown is entered at
\* most once in a run, and only from a stored username that is non-empty
\* and differs from the fetched one.
C19_SameUsernameNoReconcile ==
    \A p \in Procs :
       /\ XToX(p) =>
             /\ obs[p].calls \cap (TeardownCalls \cup {"updateUsername"}) = {}
             /\ account.username = store0[p].username
       /\ obs[p].nEnum <= 1
       /\ obs[p].calls \cap TeardownCalls # {} =>
             /\ run[p].account.username # NoUsername
             /\ run[p].account.username # run[p].username
             /\ run[p].username # NoUsername

\* A run under the stored username over a store that holds its posts has
\* upserted them and returned.
C19_Witness ==
    \E p \in Procs :
       /\ XToX(p)
       /\ Succeeded(p)
       /\ store0[p].posts # {}
       /\ Len(run[p].postObjectIds) = 3
       /\ postRecords # {}

StillStored(r) ==
    \E q \in postRecords : q.id = r.id /\ q.handle = r.handle

\* C21: a run removes no post record of the username it fetched; a record
\* that was in the store when the run started and is gone was removed by
\* the teardown of the stored username the run retires.  Whether the post
\* is still in the feed plays no part.
C21_PostRecordsKept ==
    \A p \in Procs :
       run[p].pc # "idle" =>
          \A r \in store0[p].posts :
             \/ StillStored(r)
             \/ /\ obs[p].switched
                /\ "deletePost" \in obs[p].calls
                /\ run[p].account.username # run[p].username
                /\ StartsWith(r.handle, run[p].account.username \o <<"-post-">>)
                /\ ~StartsWith(r.handle, run[p].username \o <<"-post-">>)

\* Three posts were synced; the feed now holds one of them.  The three
\* records are still there, and the list written holds one identifier.
C21_Witness ==
    \E p \in Procs :
       /\ Succeeded(p)
       /\ ~obs[p].switched
       /\ Len(run[p].posts) = 1
       /\ Cardinality(PostRecordsOf(store0[p].posts, run[p].username)) = 3
       /\ Cardinality(PostRecordsOf(postRecords, run[p].username)) = 3
       /\ \E l \in listRecords :
             /\ l.handle = run[p].username \o <<"-feed-list">>
             /\ Len(l.posts[2]) = 1

\* Both invocations ran over the same non-empty feed under the same
\* username and have returned.
BothRanTheSame ==
    /\ Procs = {1, 2}
    /\ Succeeded(1)
    /\ Succeeded(2)
    /\ run[1].posts # <<>>
    /\ run[1].posts = run[2].posts
    /\ run[1].username = run[2].username

\* C22: however two invocations interleave, no two post records and no two
\* list records of the store share a handle, so there is at most one list
\* record for a username.
C22_OneRecordPerHandle ==
    /\ \A r1, r2 \in postRecords : r1.handle = r2.handle => r1 = r2
    /\ \A l1, l2 \in listRecords : l1.handle = l2.handle => l1 = l2
    /\ \A u \in Usernames : Cardinality(ListRecordsOf(listRecords, u)) <= 1
    /\ BothRanTheSame =>
          Cardinality(PostRecordsOf(postRecords, run[1].username))
             <= Len(run[1].posts)

\* Both invocations looked up the last post before either had upserted it,
\* both upserted it and both wrote the list.
C22_Witness ==
    /\ BothRanTheSame
    /\ ~obs[1].existing
    /\ ~obs[2].existing
    /\ obs[1].nUpserts = 1
    /\ obs[2].nUpserts = 1
    /\ obs[1].listWritten
    /\ obs[2].listWritten
    /\ obs[1].returned = obs[2].returned

\* C23 as stated: when a run has completed, also across an account switch,
\* the store holds at most one list record.
C23_SingleList ==
    \A p \in Procs :
       Finished(p) => Cardinality(listRecords) <= 1

VideoSteps ==
    <<"download", "stagedUploadsCreate", "stagedUpload", "fileCreate">>

\* The step at which a failure with the message was raised.
FailedStep(message) ==
    CASE message = "Failed to download video" -> {1}
      [] message = "Failed to create staged upload" -> {2}
      [] message = "Failed to upload to staged target" -> {3}
      [] message = "userError" -> {4}
      [] OTHER -> {2, 4}

\* The alt text and source of the video transfer the steps belong to.
VideoAlt(p) == obs[p].alts[Len(obs[p].alts)]

\* C24: the steps of a video transfer are the download, the staged-target
\* request carrying the byte length of the download, the post of the
\* returned parameters with the file to the returned target, and the file
\* creation from the staged resource URL, in this order; a transfer that
\* failed at a step executed no later step and returned no file reference.
C24_VideoProtocolOrder ==
    \A p \in Procs :
       /\ \E k \in 0..4 : obs[p].steps = SubSeq(VideoSteps, 1, k)
       /\ Len(obs[p].steps) >= 2 =>
             /\ obs[p].stagedInput.filename = VideoAlt(p) \o <<".mp4">>
             /\ \E m \in {"c2", "3"} :
                   /\ VideoAlt(p)[Len(VideoAlt(p))] = m
                   /\ obs[p].stagedInput.fileSize =
                         ToString(ByteLength(<<"media_url", m>>))
       /\ Len(obs[p].steps) >= 3 =>
             /\ obs[p].posted.url = <<"staged-url">> \o obs[p].stagedInput.filename
             /\ obs[p].posted.body =
                   <<"key">> \o obs[p].stagedInput.filename
                      \o <<"file">> \o obs[p].stagedInput.filename
       /\ (obs[p].steps # <<>> /\ Len(obs[p].upResults) = obs[p].nUploads) =>
             LET res == obs[p].upResults[Len(obs[p].upResults)]
             IN  IF res.files = <<>>
                   THEN Len(obs[p].steps) \in FailedStep(res.userErrors[1])
                   ELSE /\ obs[p].steps = VideoSteps
                        /\ \E f \in files :
                              /\ f.id = res.files[1]
                              /\ f.contentType = "VIDEO"
                              /\ f.alt = VideoAlt(p)
                              /\ f.originalSource =
                                    <<"resource-url">> \o VideoAlt(p) \o <<".mp4">>
       /\ \A f \in files :
             f.contentType = "VIDEO" =>
                f.originalSource = <<"resource-url">> \o f.alt \o <<".mp4">>

\* The video post went through the four steps and its file was created
\* from the staged resource.
C24_Witness ==
    \E p \in Procs :
       /\ obs[p].steps = VideoSteps
       /\ obs[p].finished
       /\ run[p].posts[obs[p].postIdx].media_type = "VIDEO"
       /\ obs[p].stagedInput.fileSize = "9"
       /\ obs[p].nUpserts = 1
       /\ \E f \in files :
             /\ f.contentType = "VIDEO"
             /\ f.alt = run[p].username \o <<"-post_", "3">>
             /\ f.originalSource[1] = "resource-url"

\* The files the alt query and filter of the teardown select for a username.
SelectedForTeardown(u) == {f \in files : StartsWith(f.alt, OldAltPrefix(u))}

\* C25: the alt text of every file is that of a simple post or of a carousel
\* child under the username it was created under; the teardown of a
\* username selects the files created under it and no file created under
\* another username.
C25_AltTagsCorrelate ==
    /\ \A f \in files :
          LET n == Len(f.owner)
          IN  /\ f.owner \in Usernames
              /\ SubSeq(f.alt, 1, n + 1) = f.owner \o <<"-post_">>
              /\ \/ Len(f.alt) = n + 2
                 \/ Len(f.alt) = n + 4 /\ f.alt[n + 3] = "_"
    /\ \A u \in Usernames :
          SelectedForTeardown(u) = {f \in files : f.owner = u}

\* The store holds files created under both usernames, of simple posts and
\* of carousel children.
C25_Witness ==
    \E f1, f2, f3 \in files :
       /\ f1.owner = <<"a">>
       /\ f2.owner = <<"a", "b">>
       /\ Len(f1.alt) = Len(f1.owner) + 2
       /\ Len(f3.alt) = Len(f3.owner) + 4

\* The object is a success summary, or a single error message.
IsSuccessSummary(b) == "success" \in DOMAIN b /\ "error" \notin DOMAIN b
IsErrorMessage(b) == "error" \in DOMAIN b /\ "success" \notin DOMAIN b

Rep(call, n) == [k \in 1..n |-> call]

\* The media items of a post: its children for a carousel, else itself.
NumMedia(post) == IF IsCarousel(post) THEN Len(post.children) ELSE 1

\* C27: the calls of a run for one post are the lookup, then the transfers
\* (none for a post with a record, else one per media item in child order),
\* then at most one upsert, which follows the last transfer; the lookup of
\* a post is issued when the calls of the post before are complete, and the
\* list upsert when those of the last post are.
C27_StrictSequence ==
    \A p \in Procs :
       /\ obs[p].postLog # <<>> =>
             LET post == run[p].posts[obs[p].postIdx]
             IN  /\ \E k \in 0..NumMedia(post), u \in 0..1 :
                       /\ obs[p].postLog =
                             <<"lookup">> \o Rep("upload", k) \o Rep("upsert", u)
                       /\ obs[p].existing => k = 0
                       /\ (u = 1 /\ ~obs[p].existing) => k = NumMedia(post)
                       /\ obs[p].finished =>
                             (k = IF obs[p].existing THEN 0 ELSE NumMedia(post))
                 /\ IsCarousel(post) =>
                       obs[p].alts =
                          SubSeq(ChildAlts(run[p].username, post), 1,
                                 Len(obs[p].alts))
                 /\ obs[p].lookups = UpTo(obs[p].postIdx)
       /\ (run[p].pc = "lookup" /\ obs[p].postLog # <<>>) =>
             /\ obs[p].finished
             /\ run[p].i = obs[p].postIdx + 1
       /\ (run[p].pc = "listUpsert" \/ "upsertList" \in obs[p].calls) =>
             /\ obs[p].finished
             /\ obs[p].lookups = UpTo(Len(run[p].posts))

\* The carousel was looked up, its two children transferred one after the
\* other and the post upserted; the lookup of the third post is next.
C27_Witness ==
    \E p \in Procs :
       /\ run[p].pc = "lookup"
       /\ run[p].i = 3
       /\ obs[p].postLog = <<"lookup", "upload", "upload", "upsert">>
       /\ Len(run[p].postObjectIds) = 2

\* The records of a set that carry the handle of the post under the
\* username of the run.
RecordsOfPost(records, p) ==
    {q \in records :
        q.handle = GetExistingPostHandle(run[p].username,
                                         run[p].posts[obs[p].postIdx].id)}

\* C28: when every transfer of a post without a record returned no file,
\* the run issues no upsert for the post, the store holds no record under
\* its handle and no identifier of the list stands for it; and a run finds
\* a record for a post exactly when the store held one when the run
\* started, so a post left without a record is transferred by the next run.
C28_FailedTransferRetried ==
    \A p \in Procs :
       obs[p].postLog # <<>> =>
          LET post == run[p].posts[obs[p].postIdx]
          IN  /\ ( /\ ~obs[p].existing
                   /\ obs[p].finished
                   /\ ConcatFiles(obs[p].upResults) = <<>> ) =>
                     /\ obs[p].nUploads = NumMedia(post)
                     /\ obs[p].nUpserts = 0
                     /\ \A k \in 1..Len(obs[p].postLog) :
                           obs[p].postLog[k] # "upsert"
                     /\ RecordsOfPost(postRecords, p) = {}
                     /\ \A k \in 1..Len(run[p].postObjectIds) :
                           \E q \in postRecords :
                              /\ q.id = run[p].postObjectIds[k]
                              /\ q \notin RecordsOfPost(postRecords, p)
              /\ obs[p].existing <=> RecordsOfPost(store0[p].posts, p) # {}
              /\ (RecordsOfPost(store0[p].posts, p) = {} /\ obs[p].finished)
                    => obs[p].nUploads = NumMedia(post)

\* The run before went over the same feed under the same username, its
\* transfer failed and it left neither file nor record; this run found no
\* record, transferred the media and upserted the post.
C28_Witness ==
    \E p \in Procs :
       /\ Succeeded(p)
       /\ last.result = "success"
       /\ last.posts = run[p].posts
       /\ last.username = run[p].username
       /\ Len(run[p].posts) = 1
       /\ store0[p].files = {}
       /\ store0[p].posts = {}
       /\ ~obs[p].existing
       /\ obs[p].nUploads = 1
       /\ obs[p].nUpserts = 1
       /\ RecordsOfPost(postRecords, p) # {}

\* The alt texts of the media items of a post under a username, and the
\* files of the store that carry one of them.
AltsOfPost(username, post) ==
    IF IsCarousel(post)
      THEN {ChildAlts(username, post)[k] : k \in 1..Len(post.children)}
    ELSE {SimpleAlt(username, post.id)}
FilesOfPost(username, post) ==
    {f \in files : f.alt \in AltsOfPost(username, post)}

\* C29: when two invocations of one tenant have both gone over the same
\* feed, none of whose posts had a record, the store holds for every post
\* as many files as the post has media items, and each of them is in the
\* media list of a post record.
C29_NoDoubleTransfer ==
    BothRanTheSame =>
       \A k \in 1..Len(run[1].posts) :
          LET post == run[1].posts[k]
              fs == FilesOfPost(run[1].username, post)
          IN  /\ Cardinality(fs) = NumMedia(post)
              /\ \A f \in fs : OwnersOf(f.id) # {}

\* The records of a set that come after its first PageSize records.
AfterPage(records) ==
    {r \in records : Cardinality({q \in records : q.id < r.id}) >= PageSize}

StoredPostIds == {r.id : r \in postRecords}
StoredFileIds == {f.id : f \in files}

\* A run removes only what the teardown enumerated: post records among the
\* first PageSize of the store with the handle prefix of the stored
\* username, and files among the first PageSize of those whose alt text has
\* its prefix; what comes after the page stays.
CappedAtPage(p) ==
    LET X == run[p].account.username
        matching == MediaOf(store0[p].files, X)
    IN  /\ \A r \in store0[p].posts \ AfterPage(store0[p].posts) :
             ~StillStored(r) =>
                /\ obs[p].switched
                /\ StartsWith(r.handle, X \o <<"-post-">>)
        /\ \A r \in AfterPage(store0[p].posts) : StillStored(r)
        /\ \A f \in store0[p].files :
             f.id \notin StoredFileIds =>
                /\ obs[p].switched
                /\ f \in matching \ AfterPage(matching)
        /\ obs[p].beyond.posts \subseteq StoredPostIds
        /\ obs[p].beyond.files \subseteq StoredFileIds

\* C30 as stated: a teardown removes nothing beyond the first page of each
\* enumeration, and what an earlier teardown of X left beyond the page is
\* removed by no later run.
C30_LeftoversNeverRemoved ==
    \A p \in Procs :
       run[p].pc # "idle" =>
          /\ CappedAtPage(p)
          /\ last.beyond.posts \subseteq StoredPostIds
          /\ last.beyond.files \subseteq StoredFileIds

\* C30: a teardown removes nothing beyond the first page of each
\* enumeration, and what an earlier teardown of X left beyond the page is
\* removed by no later run that starts from a stored username other than X.
C30_PageCappedTeardown ==
    \A p \in Procs :
       run[p].pc # "idle" =>
          /\ CappedAtPage(p)
          /\ run[p].account.username # last.beyond.of =>
                /\ last.beyond.posts \subseteq StoredPostIds
                /\ last.beyond.files \subseteq StoredFileIds

\* The run before retired "a" and left a post record and two files of it
\* beyond the page; this run, started from the stored username "ab", has
\* completed and they are still in the store.
C30_Witness ==
    \E p \in Procs :
       /\ Succeeded(p)
       /\ last.beyond.of = SyncedUsername
       /\ run[p].account.username # SyncedUsername
       /\ last.beyond.posts # {}
       /\ last.beyond.files # {}
       /\ last.beyond.posts \subseteq StoredPostIds
       /\ last.beyond.files \subseteq StoredFileIds

\* The media items of a feed.
RECURSIVE TotalMedia(_)
TotalMedia(posts) ==
    IF posts = <<>> THEN 0 ELSE NumMedia(Head(posts)) + TotalMedia(Tail(posts))

\* The calls an invocation has issued are bounded by its feed: a lookup
\* and at most one upsert per post, at most one transfer per media item
\* (and one of each step of the staged upload per transfer), at most one
\* list upsert, one teardown of at most one page of deletes, and one call
\* each for the two fetches and the username update.
CallsBounded(p) ==
    LET n == obs[p].count
        posts == run[p].posts
    IN  /\ n["fetchMedia"] <= 1
        /\ n["fetchProfile"] <= 1
        /\ n["updateUsername"] <= 1
        /\ n["enumPosts"] <= 1
        /\ n["deletePost"] <= PageSize
        /\ n["queryList"] <= 1
        /\ n["deleteList"] <= 1
        /\ n["queryFiles"] <= 1
        /\ n["deleteFiles"] <= 1
        /\ n["lookup"] <= Len(posts)
        /\ n["upsertPost"] <= n["lookup"]
        /\ n["upload"] <= TotalMedia(posts)
        /\ n["stagedUploadsCreate"] <= n["upload"]
        /\ n["stagedUpload"] <= n["stagedUploadsCreate"]
        /\ n["videoFileCreate"] <= n["stagedUpload"]
        /\ n["upsertList"] <= 1

\* C31: when every awaited call returns, an invocation that has started
\* reaches its return statement, and the calls it issues on the way are
\* bounded by the posts and children of the feed it fetched.
C31_Terminates ==
    /\ [](\A p \in Procs : CallsBounded(p))
    /\ \A p \in {1} : (run[p].pc # "idle") ~> (run[p].pc = "done")

\* An invocation has returned after a teardown of a full page, three
\* lookups, four transfers, three upserts and the list upsert.
C31_Witness ==
    \E p \in Procs :
       /\ Succeeded(p)
       /\ obs[p].switched
       /\ obs[p].count["deletePost"] = PageSize
       /\ obs[p].count["lookup"] = 3
       /\ obs[p].count["upload"] = 4
       /\ obs[p].count["videoFileCreate"] = 2
       /\ obs[p].count["upsertPost"] = 3
       /\ obs[p].count["upsertList"] = 1

\* C32: every post record of the store has a non-empty media list: a new
\* post is upserted only with at least one file reference, and a post with
\* a record is upserted with the list the record holds.
C32_MediaListNonEmpty ==
    /\ \A r \in postRecords : JsonParse(r.images) # <<>>
    /\ \A p \in Procs :
          (obs[p].postLog # <<>> /\ obs[p].nUpserts > 0) =>
             JsonParse(obs[p].sentImages) # <<>>

\* The transfer of the third post failed and the post was not upserted;
\* the run has returned and the store holds the records of the other two.
C32_Witness ==
    \E p \in Procs :
       /\ Succeeded(p)
       /\ obs[p].postIdx = 3
       /\ ~obs[p].existing
       /\ obs[p].nUploads = 1
       /\ ConcatFiles(obs[p].upResults) = <<>>
       /\ obs[p].nUpserts = 0
       /\ Cardinality(postRecords) = 2

C34_ListReferencesExist ==
    \A p \in Procs :
       Finished(p) =>
          \A l \in listRecords :
             \A k \in 1..Len(JsonParse(l.posts)) :
                \E q \in postRecords : q.id = JsonParse(l.posts)[k]

\* The media item of the latest transfer of the current post.
LastMedia(p) ==
    LET post == run[p].posts[obs[p].postIdx]
    IN  IF IsCarousel(post) THEN post.children[obs[p].nUploads] ELSE post

\* C35: a transfer takes the staged path (download first) exactly when the
\* kind of the media item is "VIDEO"; for any other kind the file is created
\* from the media URL with content type IMAGE.  A new album without a
\* children list gets one transfer, of the URL of the post, with the alt
\* text of a simple post.
C35_KindDispatch ==
    \A p \in Procs :
       (obs[p].postLog # <<>> /\ obs[p].nUploads > 0) =>
          LET post == run[p].posts[obs[p].postIdx]
              media == LastMedia(p)
              alt == obs[p].alts[Len(obs[p].alts)]
              made == {f \in files : f.alt = alt /\ f \notin store0[p].files}
          IN  /\ Len(obs[p].alts) = obs[p].nUploads
              /\ (obs[p].steps # <<>>) <=> (media.media_type = "VIDEO")
              /\ \A f \in made :
                    IF media.media_type = "VIDEO"
                      THEN f.contentType = "VIDEO"
                      ELSE /\ f.contentType = "IMAGE"
                           /\ f.originalSource = <<"media_url", media.id>>
              /\ (post.media_type = "CAROUSEL_ALBUM" /\ ~post.hasChildren) =>
                    /\ obs[p].nUploads = 1
                    /\ obs[p].alts =
                          <<run[p].username \o <<"-post_", post.id>> >>
                    /\ media = post

\* An album without a children list was transferred as one image under
\* the alt text of a simple post and upserted; the run has returned.
C35_Witness ==
    \E p \in Procs :
       /\ Succeeded(p)
       /\ run[p].posts = << BareCarouselPost >>
       /\ ~obs[p].existing
       /\ obs[p].nUploads = 1
       /\ obs[p].nUpserts = 1
       /\ obs[p].steps = <<>>
       /\ \E f \in files :
             /\ f.alt = run[p].username \o <<"-post_", "4">>
             /\ f.contentType = "IMAGE"
             /\ f.originalSource = <<"media_url", "4">>

====
